---- MODULE Spec2Model ----
(***************************************************************************)
(* AKAS backends (src/akas/backend): the three FastAPI applications        *)
(*   main.py           /ingest/ /query/                                    *)
(*   main_v2.py        /v2/ingest/ /v2/query/ /v2/feedback/                *)
(*   enhanced_main.py  /query /feedback (mounts main.py under /v1)         *)
(* as one state machine.  A process serves exactly one of them (app);      *)
(* "main" is main.py served directly or mounted under /v1 by               *)
(* enhanced_main.py, whose own handlers share no state with it.            *)
(* External calls (document loaders, embedding provider, LLM) are inputs   *)
(* of the actions: each either returns or raises.                          *)
(* The payment service of the tracing example (tracing.py) is a separate   *)
(* application, app = "payment-service".                                   *)
(***************************************************************************)
EXTENDS Integers, Sequences, FiniteSets, Bags, TLC

VARIABLES
    app,            \* which module uvicorn serves
    docs,           \* the files of directory "docs"
    vector_store,   \* global vector_store (main.py, main_v2.py)
    qa_chain,       \* global qa_chain (main.py, main_v2.py)
    query_logs,     \* main_v2.py query_logs
    feedback_data,  \* feedback_data (main_v2.py, enhanced_main.py)
    rag_pipeline,   \* enhanced_main.py rag_pipeline is set
    doc_processor,  \* enhanced_main.py doc_processor is set
    query_history,  \* enhanced_main.py query_history
    system_stats,   \* enhanced_main.py system_stats
    pending,        \* requests suspended at an await (enhanced_main.py queries
                    \* in asyncio.to_thread, uploads in file.read())
    persisted,      \* what is stored at ./vector_store (enhanced_rag_pipeline.py)
    tmp,            \* the files of directory /tmp (enhanced_main.py uploads)
    chain_runs,     \* calls of the retrieval chain / pipeline so far (history)
    all_queries,    \* every record ever appended to the query log (history)
    all_feedback,   \* every record ever appended to feedback_data (history)
    last            \* the most recent request and its response (history)

vars == <<app, docs, vector_store, qa_chain, query_logs, feedback_data,
          rag_pipeline, doc_processor, query_history, system_stats, pending,
          persisted, tmp, chain_runs, all_queries, all_feedback, last>>

(***************************************************************************)
(* Bounds of the model.                                                    *)
(***************************************************************************)
MaxDocs == 2         \* files in directory docs
MaxBatch == 2        \* files of one /v2/ingest/ request
MaxRuns == 2         \* calls of the chain / pipeline in Spec
MaxPending == 2      \* requests in flight (suspended at an await) at once
LogSlack == 2        \* appends beyond the cap in the log specifications

(***************************************************************************)
(* Program constants.                                                      *)
(***************************************************************************)
QueryLogCap == 100
QueryHistoryCap == 100
FeedbackCapV2 == 100
FeedbackCap == 1000

(***************************************************************************)
(* Values.                                                                 *)
(***************************************************************************)
None == [isNone |-> TRUE]            \* Python None for the two globals

Apps == {"main", "main_v2", "enhanced_main"}

\* The location ./vector_store: nothing there, files FAISS cannot read, or
\* an index saved by save_local.
Missing == [state |-> "missing"]
Corrupt == [state |-> "corrupt"]
Persisted(store) == [state |-> "saved", store |-> store]

\* An uploaded file: its name (stem and extension) and what is in it.
\* "one"/"two": a readable document that splits into 1/2 chunks;
\* "corrupt": bytes the loader raises on.
FileNames == {[stem |-> "a", ext |-> ".pdf"], [stem |-> "n", ext |-> ".txt"]}
Contents == {"one", "two", "corrupt"}
\* (ingest.py never opens a .txt file: one content stands for all of them)
Uploads == {u \in [filename : FileNames, content : Contents] :
                u.filename.ext = ".txt" => u.content = "one"}

NumChunks(content) == CASE content = "one" -> 1
                        [] content = "two" -> 2
                        [] OTHER -> 0

Outcomes == {"ok", "raise"}          \* an external call returns or raises
Questions == {"q"}
Answers == {"", "Paris"}             \* text the chain may return
Users == {"None", "admin", "alice"}  \* verify_token: None or the token's sub

\* Python s[-n:] for n >= 1
LastN(s, n) == IF Len(s) <= n THEN s ELSE SubSeq(s, Len(s) - n + 1, Len(s))

\* Python s.pop(0)
PopFirst(s) == SubSeq(s, 2, Len(s))

\* The chunks the splitter makes of one stored file.
ChunksOf(f) == {[source |-> f.path, index |-> i] : i \in 1..NumChunks(f.content)}

(***************************************************************************)
(* ingest.py ingest_documents(doc_dir): every file whose name ends with    *)
(* ".pdf" is loaded with PyPDFLoader (no try/except: a load that raises    *)
(* propagates), the rest are not looked at; the documents are split.       *)
(***************************************************************************)
\* Bytes a loader raises on: a damaged file, and a file that was created
\* but has nothing written to it yet.
Unreadable == {"corrupt", "empty"}

ingest_documents(dir) ==
    LET pdfs == {f \in dir : f.path.filename.ext = ".pdf"}
    IN IF \E f \in pdfs : f.content \in Unreadable
       THEN [raised |-> TRUE, chunks |-> {}]
       ELSE [raised |-> FALSE, chunks |-> UNION {ChunksOf(f) : f \in pdfs}]

(***************************************************************************)
(* enhanced_ingest.py EnhancedDocumentIngestor.ingest_documents: loader by *)
(* lower-cased extension, unsupported files skipped, a load that raises is *)
(* caught and the file skipped; every chunk gets file_type.                *)
(***************************************************************************)
SupportedExts == {".pdf", ".txt", ".docx", ".xlsx"}

EnhancedDocumentIngestor_ingest_documents(dir) ==
    LET loaded == {f \in dir : /\ f.path.filename.ext \in SupportedExts
                               /\ f.content \notin Unreadable}
    IN [raised |-> FALSE,
        chunks |-> {[source |-> c.source, index |-> c.index,
                     file_type |-> c.source.filename.ext]
                    : c \in UNION {ChunksOf(f) : f \in loaded}}]

(***************************************************************************)
(* rag_pipeline.py                                                         *)
(* build_vector_store(docs): FAISS.from_documents raises on an empty list  *)
(* (it indexes embeddings[0]) and whenever the embedding call raises.      *)
(* get_qa_chain(vector_store): the chain over that store; as_retriever()   *)
(* is called without search_kwargs, so the retriever fetches DefaultK       *)
(* chunks, or all of them when the store holds fewer.                      *)
(***************************************************************************)
DefaultK == 4

Min(a, b) == IF a <= b THEN a ELSE b

build_vector_store(chunks, outcome) ==
    IF chunks = {} \/ outcome = "raise"
    THEN [raised |-> TRUE, store |-> None]
    ELSE [raised |-> FALSE, store |-> [isNone |-> FALSE, chunks |-> chunks]]

get_qa_chain(store, outcome) ==
    IF outcome = "raise"
    THEN [raised |-> TRUE, chain |-> None]
    ELSE [raised |-> FALSE,
          chain |-> [isNone |-> FALSE, retriever |-> store, k |-> DefaultK]]

\* What the chain's retriever may hand to the LLM for one question: k chunks
\* of its store (which ones is the similarity search's matter), all of them
\* when the store holds no more than k.
Retrieve(chain) ==
    {used \in SUBSET chain.retriever.chunks :
        Cardinality(used) = Min(chain.k, Cardinality(chain.retriever.chunks))}

\* An error response (HTTPException, or the body {"error": ...} of main.py).
Error(op, status, detail, req) ==
    [op |-> op, status |-> status, kind |-> "error", detail |-> detail,
     request |-> req]

\* The error response of a query; run records what the chain did for this
\* query: "none" (not called), "raise" (history, not part of the response).
QueryError(op, status, detail, req, run) ==
    [op |-> op, status |-> status, kind |-> "error", detail |-> detail,
     request |-> req, run |-> run]

(***************************************************************************)
(* main.py ingest (lines 10-18): write docs/<filename> (replacing a file   *)
(* of that name), reload the whole directory, rebuild store and chain.     *)
(* Nothing is caught: an exception ends the request with status 500 and    *)
(* keeps the assignments made before it.                                   *)
(***************************************************************************)
ingest(file, bvs, gqc) ==
    /\ app = "main"
    /\ LET path == [file_id |-> 0, filename |-> file.filename]
           dir == {f \in docs : f.path # path}
                    \cup {[path |-> path, content |-> file.content]}
           loaded == ingest_documents(dir)
           built == build_vector_store(loaded.chunks, bvs)
           chain == get_qa_chain(built.store, gqc)
           \* the upload, and what the external calls did (history)
           req == [files |-> <<file>>, bvs |-> bvs, gqc |-> gqc]
       IN /\ docs' = dir
          /\ IF loaded.raised \/ built.raised
             THEN /\ UNCHANGED <<vector_store, qa_chain>>
                  /\ last' = Error("ingest", 500, "Internal Server Error", req)
             ELSE /\ vector_store' = built.store
                  /\ IF chain.raised
                     THEN /\ UNCHANGED qa_chain
                          /\ last' = Error("ingest", 500, "Internal Server Error", req)
                     ELSE /\ qa_chain' = chain.chain
                          /\ last' = [op |-> "ingest", status |-> 200,
                                      kind |-> "ingested", request |-> req]
    /\ UNCHANGED <<app, persisted, tmp, query_logs, feedback_data, rag_pipeline, doc_processor,
                   query_history, system_stats, pending, chain_runs,
                   all_queries, all_feedback>>

(***************************************************************************)
(* main.py query (lines 20-25).  run/answer: what qa_chain.run does.       *)
(***************************************************************************)
\* Faulty variant: a query whose chain raises throws the chain away.
query_DropsChain(q, run, answer) ==
    /\ app = "main"
    /\ LET req == [question |-> q]
       IN IF qa_chain = None
          THEN /\ last' = QueryError("query", 200, "No data ingested yet.",
                                  req, "none")
               /\ UNCHANGED <<chain_runs, qa_chain>>
          ELSE /\ chain_runs' = chain_runs + 1
               /\ qa_chain' = IF run = "raise" THEN None ELSE qa_chain
               /\ last' = IF run = "raise"
                          THEN QueryError("query", 500, "Internal Server Error",
                                          req, "raise")
                          ELSE [op |-> "query", status |-> 200, kind |-> "answer",
                                answer |-> answer, request |-> req, run |-> "ok"]
    /\ UNCHANGED <<app, persisted, tmp, docs, vector_store, query_logs, feedback_data,
                   rag_pipeline, doc_processor, query_history, system_stats,
                   pending, all_queries, all_feedback>>

query(q, run, answer) ==
    /\ app = "main"
    /\ LET req == [question |-> q]
       IN IF qa_chain = None
          THEN /\ last' = QueryError("query", 200, "No data ingested yet.",
                                  req, "none")
               /\ UNCHANGED chain_runs
          ELSE /\ chain_runs' = chain_runs + 1
               /\ last' = IF run = "raise"
                          THEN QueryError("query", 500, "Internal Server Error",
                                          req, "raise")
                          ELSE [op |-> "query", status |-> 200, kind |-> "answer",
                                answer |-> answer, request |-> req, run |-> "ok"]
    /\ UNCHANGED <<app, persisted, tmp, docs, vector_store, qa_chain, query_logs, feedback_data,
                   rag_pipeline, doc_processor, query_history, system_stats,
                   pending, all_queries, all_feedback>>

(***************************************************************************)
(* main_v2.py enhanced_ingest (lines 72-115).  Every file is saved as      *)
(* docs/<uuid>_<filename> (a fresh uuid: here the next free number) and    *)
(* gets a result "saved"; then the whole directory is loaded.  Inside the  *)
(* try every exception becomes status 500, keeping the assignments made    *)
(* before it.                                                              *)
(***************************************************************************)
Saved(files, base) ==
    [i \in 1..Len(files) |->
        [file_id |-> base + i, filename |-> files[i].filename, status |-> "saved"]]

Processed(results, n) ==
    [i \in 1..Len(results) |->
        [file_id |-> results[i].file_id, filename |-> results[i].filename,
         status |-> "processed", chunks_created |-> n \div Len(results)]]

enhanced_ingest(files, bvs, gqc) ==
    /\ app = "main_v2"
    /\ LET base == Cardinality(docs)
           results == Saved(files, base)
           dir == docs \cup {[path |-> [file_id |-> results[i].file_id,
                                         filename |-> files[i].filename],
                              content |-> files[i].content] : i \in 1..Len(files)}
           loaded == ingest_documents(dir)
           built == build_vector_store(loaded.chunks, bvs)
           chain == get_qa_chain(built.store, gqc)
           \* the uploads, and what the external calls did (history)
           req == [files |-> files, bvs |-> bvs, gqc |-> gqc]
           failed == Error("enhanced_ingest", 500, "Processing error", req)
       IN /\ docs' = dir
          /\ IF loaded.raised
             THEN /\ UNCHANGED <<vector_store, qa_chain>>
                  /\ last' = failed
             ELSE IF loaded.chunks = {}
             THEN /\ UNCHANGED <<vector_store, qa_chain>>
                  /\ last' = [op |-> "enhanced_ingest", status |-> 200,
                              kind |-> "results", results |-> results,
                              total_chunks |-> 0, request |-> req]
             ELSE IF built.raised
             THEN /\ UNCHANGED <<vector_store, qa_chain>>
                  /\ last' = failed
             ELSE /\ vector_store' = built.store
                  /\ IF chain.raised
                     THEN /\ UNCHANGED qa_chain
                          /\ last' = failed
                     ELSE /\ qa_chain' = chain.chain
                          /\ last' = [op |-> "enhanced_ingest", status |-> 200,
                                      kind |-> "results",
                                      results |-> Processed(results,
                                                    Cardinality(loaded.chunks)),
                                      total_chunks |-> Cardinality(loaded.chunks),
                                      request |-> req]
    /\ UNCHANGED <<app, persisted, tmp, query_logs, feedback_data, rag_pipeline, doc_processor,
                   query_history, system_stats, pending, chain_runs,
                   all_queries, all_feedback>>

(***************************************************************************)
(* main_v2.py enhanced_query (lines 117-158).  A record's query_id and     *)
(* timestamp are modelled by its ordinal among all records ever logged.    *)
(***************************************************************************)
\* A request body as the client sends it: a field may be left out.
RequestedKs == {0, 1, 21}
QueryBodiesV2 == {[question |-> q] : q \in Questions}
                     \cup [question : Questions, k : RequestedKs]

\* QueryRequest (lines 33-37): k is Optional[int] = 4, any integer passes.
QueryRequestV2(body) ==
    [question |-> body.question, llm_provider |-> "openai",
     k |-> IF "k" \in DOMAIN body THEN body.k ELSE 4]

\* Faulty variant: the slice keeps the first records, query_logs[:100].
CapQueryLogs_KeepsFirst(logs) ==
    IF Len(logs) > QueryLogCap THEN SubSeq(logs, 1, QueryLogCap) ELSE logs

CapQueryLogs(logs) ==
    IF Len(logs) > QueryLogCap THEN LastN(logs, QueryLogCap) ELSE logs

\* Faulty variant: the not-ready case is answered with an empty answer.
NotReadyV2_EmptyAnswer(request) ==
    [op |-> "enhanced_query", status |-> 200, kind |-> "answer", answer |-> "",
     sources |-> <<>>, query_id |-> 0, request |-> request, run |-> "none"]

\* lines 125-126: raise HTTPException(status_code=400, ...)
NotReadyV2(request) ==
    QueryError("enhanced_query", 400,
               "No data ingested yet. Please upload documents first.",
               request, "none")

enhanced_query(request, run, answer) ==
    /\ app = "main_v2"
    /\ IF qa_chain = None
       THEN /\ last' = NotReadyV2(request)
            /\ UNCHANGED <<chain_runs, query_logs, all_queries>>
       ELSE /\ chain_runs' = chain_runs + 1
            /\ IF run = "raise"
               THEN /\ last' = QueryError("enhanced_query", 500, "Query error",
                                            request, "raise")
                    /\ UNCHANGED <<query_logs, all_queries>>
               ELSE LET query_log == [query_id |-> Len(all_queries) + 1,
                                      question |-> request.question,
                                      answer |-> answer,
                                      llm_provider |-> request.llm_provider,
                                      timestamp |-> Len(all_queries) + 1]
                    IN /\ query_logs' = CapQueryLogs(Append(query_logs, query_log))
                       /\ all_queries' = Append(all_queries, query_log)
                       \* used: the chunks the chain retrieved (history)
                       /\ \E used \in Retrieve(qa_chain) :
                             last' = [op |-> "enhanced_query", status |-> 200,
                                      kind |-> "answer", answer |-> answer,
                                      sources |-> <<>>,
                                      query_id |-> query_log.query_id,
                                      request |-> request, run |-> "ok",
                                      used |-> used]
    /\ UNCHANGED <<app, persisted, tmp, docs, vector_store, qa_chain, feedback_data, rag_pipeline,
                   doc_processor, query_history, system_stats, pending,
                   all_feedback>>

(***************************************************************************)
(* enhanced_main.py process_query (lines 270-319).  The handler suspends   *)
(* at await asyncio.to_thread(rag_pipeline.query, ...): other requests run *)
(* in between, so it is two steps.  Everything is inside one try whose     *)
(* except turns any exception, the 503 included, into status 500.          *)
(***************************************************************************)
RequestedMaxResults == {0, 20, 21}
QueryBodies == {[query |-> q] : q \in Questions}
                   \cup [query : Questions, max_results : RequestedMaxResults]

\* QueryRequest (lines 53-56): max_results is
\* Optional[int] = Field(default=5, ge=1, le=20); the default is not validated.
QueryRequest(body) ==
    IF "max_results" \notin DOMAIN body
    THEN [ok |-> TRUE, value |-> [query |-> body.query, max_results |-> 5]]
    ELSE [ok |-> body.max_results >= 1 /\ body.max_results <= 20,
          value |-> [query |-> body.query, max_results |-> body.max_results]]

\* The framework's answer to a body the request model refuses: status 422,
\* the handler is not entered.
RequestValidationError(body) ==
    [op |-> "request_validation", status |-> 422, kind |-> "error",
     detail |-> "validation error", request |-> body, run |-> "none"]

process_query_begin(request, current_user) ==
    /\ app = "enhanced_main"
    /\ IF ~rag_pipeline
       THEN /\ last' = QueryError("process_query", 500,
                             "Query failed: 503: RAG pipeline not initialized",
                             request, "none")
            /\ UNCHANGED <<pending, chain_runs>>
       ELSE /\ pending' = pending (+) SetToBag({[request |-> request,
                                                 user |-> current_user]})
            /\ chain_runs' = chain_runs + 1
            /\ last' = [op |-> "process_query", status |-> 0, kind |-> "await",
                        request |-> request, run |-> "started"]
    /\ UNCHANGED <<app, persisted, tmp, docs, vector_store, qa_chain, query_logs, feedback_data,
                   rag_pipeline, doc_processor, query_history, system_stats,
                   all_queries, all_feedback>>

\* POST /query: the body is validated against QueryRequest, then the
\* handler runs.
post_query(body, current_user) ==
    IF QueryRequest(body).ok
    THEN process_query_begin(QueryRequest(body).value, current_user)
    ELSE /\ app = "enhanced_main"
         /\ last' = RequestValidationError(body)
         /\ UNCHANGED <<app, persisted, tmp, docs, vector_store, qa_chain, query_logs,
                        feedback_data, rag_pipeline, doc_processor,
                        query_history, system_stats, pending, chain_runs,
                        all_queries, all_feedback>>

\* dict.get(key, default) on the pipeline's result
Get(result, default) == IF result.has_response THEN result.response ELSE default

CapQueryHistory(history) ==
    IF Len(history) > QueryHistoryCap THEN PopFirst(history) ELSE history

\* Faulty variant: an exception of the pipeline is answered with the default text.
QueryFailed_DefaultAnswer(request) ==
    [op |-> "process_query", status |-> 200, kind |-> "answer",
     answer |-> "No response generated", request |-> request, run |-> "raise"]

\* lines 317-319: except Exception -> HTTPException(status_code=500, ...)
QueryFailed(request) ==
    QueryError("process_query", 500, "Query failed", request, "raise")

process_query_end(p, run, result, processing_time) ==
    /\ app = "enhanced_main"
    /\ p \in BagToSet(pending)
    /\ pending' = pending (-) SetToBag({p})
    /\ IF run = "raise"
       THEN /\ last' = QueryFailed(p.request)
            /\ UNCHANGED <<system_stats, query_history, all_queries>>
       ELSE LET query_record == [query |-> p.request.query,
                                 response |-> Get(result, ""),
                                 timestamp |-> Len(all_queries) + 1,
                                 processing_time |-> processing_time,
                                 user |-> p.user]
            IN /\ system_stats' =
                     [system_stats EXCEPT
                        !.total_queries = @ + 1,
                        !.total_response_time = @ + processing_time]
               /\ query_history' = CapQueryHistory(Append(query_history, query_record))
               /\ all_queries' = Append(all_queries, query_record)
               /\ last' = [op |-> "process_query", status |-> 200,
                           kind |-> "answer",
                           answer |-> Get(result, "No response generated"),
                           request |-> p.request, run |-> "ok"]
    /\ UNCHANGED <<app, persisted, tmp, docs, vector_store, qa_chain, query_logs, feedback_data,
                   rag_pipeline, doc_processor, chain_runs, all_feedback>>

(***************************************************************************)
(* main_v2.py submit_feedback (lines 160-179).  UserFeedback declares      *)
(* rating as a plain int.  feedback_id and timestamp are modelled by the   *)
(* entry's ordinal among all entries ever stored.                          *)
(***************************************************************************)
\* Faulty variant: the slice keeps the first entries, feedback_data[:100].
CapFeedbackV2_KeepsFirst(data) ==
    IF Len(data) > FeedbackCapV2 THEN SubSeq(data, 1, FeedbackCapV2) ELSE data

CapFeedbackV2(data) ==
    IF Len(data) > FeedbackCapV2 THEN LastN(data, FeedbackCapV2) ELSE data

submit_feedback_v2(feedback) ==
    /\ app = "main_v2"
    /\ LET feedback_entry == [feedback_id |-> Len(all_feedback) + 1,
                              query_id |-> feedback.query_id,
                              rating |-> feedback.rating,
                              comment |-> feedback.comment,
                              timestamp |-> Len(all_feedback) + 1]
       IN /\ feedback_data' = CapFeedbackV2(Append(feedback_data, feedback_entry))
          /\ all_feedback' = Append(all_feedback, feedback_entry)
          /\ last' = [op |-> "submit_feedback", status |-> 200,
                      kind |-> "feedback_received",
                      feedback_id |-> feedback_entry.feedback_id,
                      request |-> feedback]
    /\ UNCHANGED <<app, persisted, tmp, docs, vector_store, qa_chain, query_logs, rag_pipeline,
                   doc_processor, query_history, system_stats, pending,
                   chain_runs, all_queries>>

(***************************************************************************)
(* enhanced_main.py submit_feedback (lines 342-368).  FeedbackRequest      *)
(* (lines 72-76) validates rating with ge=1, le=5 before the handler runs: *)
(* a request outside it is answered 422.                                   *)
(***************************************************************************)
CapFeedback(data) ==
    IF Len(data) > FeedbackCap THEN PopFirst(data) ELSE data

submit_feedback(feedback, current_user) ==
    /\ app = "enhanced_main"
    /\ IF ~(feedback.rating >= 1 /\ feedback.rating <= 5)
       THEN /\ last' = Error("submit_feedback", 422, "validation error", feedback)
            /\ UNCHANGED <<feedback_data, all_feedback>>
       ELSE LET feedback_record == [query |-> feedback.query,
                                    response |-> feedback.response,
                                    rating |-> feedback.rating,
                                    comment |-> feedback.comment,
                                    timestamp |-> Len(all_feedback) + 1,
                                    user |-> current_user]
            IN /\ feedback_data' = CapFeedback(Append(feedback_data, feedback_record))
               /\ all_feedback' = Append(all_feedback, feedback_record)
               /\ last' = [op |-> "submit_feedback", status |-> 200,
                           kind |-> "feedback_submitted", request |-> feedback]
    /\ UNCHANGED <<app, persisted, tmp, docs, vector_store, qa_chain, query_logs, rag_pipeline,
                   doc_processor, query_history, system_stats, pending,
                   chain_runs, all_queries>>

(***************************************************************************)
(* main_v2.py get_available_llm_providers (lines 58-69) and health_check   *)
(* (lines 213-223).  environ: the API-key variables set (non-empty) in the *)
(* process environment, an input of the call.                              *)
(***************************************************************************)
Environs == {{}, {"OPENAI_API_KEY"}, {"ANTHROPIC_API_KEY", "GOOGLE_API_KEY"}}

get_available_llm_providers(environ) ==
    LET providers ==
            (IF "OPENAI_API_KEY" \in environ THEN <<"openai">> ELSE <<>>)
            \o (IF "ANTHROPIC_API_KEY" \in environ THEN <<"anthropic">> ELSE <<>>)
            \o (IF "GOOGLE_API_KEY" \in environ THEN <<"google">> ELSE <<>>)
    IN IF providers # <<>> THEN providers ELSE <<"openai">>

health_check_v2(environ) ==
    /\ app = "main_v2"
    /\ last' = [op |-> "health_check", status |-> 200, kind |-> "healthy",
                vector_store_ready |-> vector_store # None,
                qa_chain_ready |-> qa_chain # None,
                available_llm_providers |-> get_available_llm_providers(environ),
                environ |-> environ]
    /\ UNCHANGED <<app, persisted, tmp, docs, vector_store, qa_chain, query_logs,
                   feedback_data, rag_pipeline, doc_processor, query_history,
                   system_stats, pending, chain_runs, all_queries,
                   all_feedback>>

(***************************************************************************)
(* enhanced_main.py health_check (lines 399-409).                          *)
(***************************************************************************)
health_check ==
    /\ app = "enhanced_main"
    /\ last' = [op |-> "health_check", status |-> 200, kind |-> "healthy",
                services |-> [rag_pipeline |-> rag_pipeline,
                              document_processor |-> doc_processor]]
    /\ UNCHANGED <<app, persisted, tmp, docs, vector_store, qa_chain, query_logs,
                   feedback_data, rag_pipeline, doc_processor, query_history,
                   system_stats, pending, chain_runs, all_queries,
                   all_feedback>>

(***************************************************************************)
(* enhanced_main.py get_query_history (lines 321-339) and reset_system     *)
(* (lines 433-456).                                                        *)
(***************************************************************************)
\* Python s[start:]
SliceFrom(s, start) ==
    LET from == IF start < 0
                THEN (IF Len(s) + start < 0 THEN 0 ELSE Len(s) + start)
                ELSE (IF start > Len(s) THEN Len(s) ELSE start)
    IN SubSeq(s, from + 1, Len(s))

\* [q for q in query_history if q.get("user") == current_user]
RecordsOfUser(history, user) ==
    LET mine(q) == q.user = user
    IN SelectSeq(history, mine)

get_query_history(limit, current_user) ==
    /\ app = "enhanced_main"
    /\ LET filtered_history == IF current_user # "None"
                               THEN RecordsOfUser(query_history, current_user)
                               ELSE query_history
       IN last' = [op |-> "get_query_history", status |-> 200,
                   kind |-> "history",
                   history |-> SliceFrom(filtered_history, -limit),
                   total_queries |-> Len(filtered_history),
                   request |-> [limit |-> limit, user |-> current_user]]
    /\ UNCHANGED <<app, persisted, tmp, docs, vector_store, qa_chain, query_logs,
                   feedback_data, rag_pipeline, doc_processor, query_history,
                   system_stats, pending, chain_runs, all_queries,
                   all_feedback>>

\* Faulty variant: the reset empties the history and keeps the counters.
reset_system_KeepsCounters(current_user) ==
    /\ app = "enhanced_main"
    /\ IF current_user # "admin"
       THEN /\ last' = Error("reset_system", 500, "Failed to reset system",
                             [user |-> current_user])
            /\ UNCHANGED <<query_history, feedback_data, system_stats>>
       ELSE /\ query_history' = <<>>
            /\ feedback_data' = <<>>
            /\ UNCHANGED system_stats
            /\ last' = [op |-> "reset_system", status |-> 200, kind |-> "reset",
                        request |-> [user |-> current_user]]
    /\ UNCHANGED <<app, persisted, tmp, docs, vector_store, qa_chain, query_logs,
                   rag_pipeline, doc_processor, pending, chain_runs,
                   all_queries, all_feedback>>

\* The 403 of line 439 is raised inside the try and turned into status 500
\* by the handler's own except (lines 454-456).
reset_system(current_user) ==
    /\ app = "enhanced_main"
    /\ IF current_user # "admin"
       THEN /\ last' = Error("reset_system", 500, "Failed to reset system",
                             [user |-> current_user])
            /\ UNCHANGED <<query_history, feedback_data, system_stats>>
       ELSE /\ query_history' = <<>>
            /\ feedback_data' = <<>>
            /\ system_stats' = [total_documents |-> 0, total_queries |-> 0,
                                total_response_time |-> 0]
            /\ last' = [op |-> "reset_system", status |-> 200, kind |-> "reset",
                        request |-> [user |-> current_user]]
    /\ UNCHANGED <<app, persisted, tmp, docs, vector_store, qa_chain, query_logs,
                   rag_pipeline, doc_processor, pending, chain_runs,
                   all_queries, all_feedback>>

(***************************************************************************)
(* Start of the process.  enhanced_main.py lifespan (lines 128-151) sets   *)
(* rag_pipeline, then doc_processor; an exception on the way leaves the    *)
(* rest unset and the application serves all the same.                     *)
(***************************************************************************)
lifespan == {<<FALSE, FALSE>>, <<TRUE, FALSE>>, <<TRUE, TRUE>>}

Start(apps) ==
    /\ app \in apps
    /\ docs = {}
    /\ vector_store = None
    /\ qa_chain = None
    /\ query_logs = <<>>
    /\ feedback_data = <<>>
    /\ \E up \in lifespan :
          /\ rag_pipeline = (app = "enhanced_main" /\ up[1])
          /\ doc_processor = (app = "enhanced_main" /\ up[2])
    /\ query_history = <<>>
    /\ system_stats = [total_documents |-> 0, total_queries |-> 0,
                       total_response_time |-> 0]
    /\ pending = EmptyBag
    /\ persisted = Missing
    /\ tmp = {}
    /\ chain_runs = 0
    /\ all_queries = <<>>
    /\ all_feedback = <<>>
    /\ last = [op |-> "startup", status |-> 0, kind |-> "none"]

Init == Start(Apps)

Batches == UNION {[1..n -> Uploads] : n \in 1..MaxBatch}
QueryRequestsV2 == {QueryRequestV2(body) : body \in QueryBodiesV2}
Results == {[has_response |-> TRUE, response |-> "Paris"],
            [has_response |-> TRUE, response |-> ""],
            [has_response |-> FALSE, response |-> ""]}
ProcessingTimes == {1, 2}

Next ==
    \/ \E file \in Uploads, bvs \in Outcomes, gqc \in Outcomes :
          ingest(file, bvs, gqc)
    \/ \E q \in Questions, run \in Outcomes, answer \in Answers :
          chain_runs < MaxRuns /\ query(q, run, answer)
    \/ \E files \in Batches, bvs \in Outcomes, gqc \in Outcomes :
          /\ Cardinality(docs) + Len(files) <= MaxDocs
          /\ enhanced_ingest(files, bvs, gqc)
    \/ \E request \in QueryRequestsV2, run \in Outcomes, answer \in Answers :
          chain_runs < MaxRuns /\ enhanced_query(request, run, answer)
    \/ \E body \in QueryBodies, current_user \in Users :
          /\ chain_runs < MaxRuns
          /\ BagCardinality(pending) < MaxPending
          /\ post_query(body, current_user)
    \/ \E p \in BagToSet(pending), run \in Outcomes, result \in Results,
          processing_time \in ProcessingTimes :
          process_query_end(p, run, result, processing_time)
    \/ \E environ \in Environs : health_check_v2(environ)
    \/ health_check

Spec == Init /\ [][Next]_vars

(***************************************************************************)
(* The query log up to and past its cap: one upload makes main_v2 ready,   *)
(* then queries (answered or failed) one after the other; in enhanced_main *)
(* up to MaxPending queries overlap.                                       *)
(***************************************************************************)
LogUpload == [filename |-> [stem |-> "a", ext |-> ".pdf"], content |-> "one"]
LogRequestV2 == [question |-> "q", llm_provider |-> "openai", k |-> 4]
LogRequest == [query |-> "q", max_results |-> 5]
LogResult == [has_response |-> TRUE, response |-> "Paris"]
LogApps == {"main_v2", "enhanced_main"}

NextQueryLog ==
    \/ docs = {} /\ enhanced_ingest(<<LogUpload>>, "ok", "ok")
    \/ \E run \in Outcomes :
          /\ chain_runs < QueryLogCap + LogSlack
          /\ enhanced_query(LogRequestV2, run, "Paris")
    \/ /\ chain_runs < QueryHistoryCap + LogSlack
       /\ BagCardinality(pending) < MaxPending
       /\ process_query_begin(LogRequest, "admin")
    \/ \E p \in BagToSet(pending), run \in Outcomes :
          process_query_end(p, run, LogResult, 1)

SpecQueryLog == Start(LogApps) /\ [][NextQueryLog]_vars

(***************************************************************************)
(* The feedback log up to and past its cap.                                *)
(***************************************************************************)
LogFeedbackV2 == [query_id |-> 1, rating |-> 5, comment |-> "None"]
LogFeedback(rating) ==
    [query |-> "q", response |-> "Paris", rating |-> rating, comment |-> "None"]

NextFeedbackLog ==
    \/ /\ Len(all_feedback) < FeedbackCapV2 + LogSlack
       /\ submit_feedback_v2(LogFeedbackV2)
    \/ \E rating \in {0, 5} :
          /\ Len(all_feedback) < FeedbackCap + LogSlack
          /\ submit_feedback(LogFeedback(rating), "None")

SpecFeedbackLog == Start(LogApps) /\ [][NextFeedbackLog]_vars

(***************************************************************************)
(* enhanced_main.py: the query history and the counters up to and past the *)
(* cap, with queries that overlap, queries that fail, feedback and resets. *)
(* At most MaxRuns queries fail; one feedback is submitted, after the      *)
(* hundredth answer.                                                       *)
(***************************************************************************)
\* Queries that have failed so far.
FailedQueries == chain_runs - Len(all_queries) - BagCardinality(pending)

NextHistoryCap ==
    \/ /\ Len(all_queries) + BagCardinality(pending) < QueryHistoryCap + LogSlack
       /\ BagCardinality(pending) < MaxPending
       /\ process_query_begin(LogRequest, "admin")
    \/ \E p \in BagToSet(pending) : process_query_end(p, "ok", LogResult, 1)
    \/ \E p \in BagToSet(pending) :
          /\ FailedQueries < MaxRuns
          /\ process_query_end(p, "raise", LogResult, 1)
    \/ /\ all_feedback = <<>>
       /\ Len(all_queries) >= QueryHistoryCap
       /\ submit_feedback(LogFeedback(5), "admin")
    \/ \E current_user \in {"admin", "None"} : reset_system(current_user)

SpecHistoryCap == Start({"enhanced_main"}) /\ [][NextHistoryCap]_vars

(***************************************************************************)
(* enhanced_main.py: queries of several callers, the history each of them  *)
(* is shown, feedback and resets.                                          *)
(***************************************************************************)
Limits == {0, 1, 10}     \* GET /query/history?limit= (10 when left out)

NextHistory ==
    \/ \E current_user \in Users :
          /\ chain_runs < MaxRuns
          /\ BagCardinality(pending) < MaxPending
          /\ process_query_begin(LogRequest, current_user)
    \/ \E p \in BagToSet(pending), run \in Outcomes, result \in Results :
          process_query_end(p, run, result, 1)
    \/ \E limit \in Limits, current_user \in Users :
          get_query_history(limit, current_user)
    \/ \E current_user \in Users :
          /\ all_feedback = <<>>
          /\ submit_feedback(LogFeedback(5), current_user)
    \/ \E current_user \in Users : reset_system(current_user)

SpecHistory == Start({"enhanced_main"}) /\ [][NextHistory]_vars

(***************************************************************************)
(* The feedback handlers with every kind of rating a client may send.      *)
(***************************************************************************)
MaxFeedback == 3     \* submissions in SpecFeedback
Ratings == {0, 1, 5, 6}

NextFeedback ==
    \/ \E rating \in Ratings :
          /\ Len(all_feedback) < MaxFeedback
          /\ submit_feedback_v2([query_id |-> 1, rating |-> rating,
                                 comment |-> "None"])
    \/ \E rating \in Ratings, current_user \in Users :
          /\ Len(all_feedback) < MaxFeedback
          /\ submit_feedback(LogFeedback(rating), current_user)

SpecFeedback == Start(LogApps) /\ [][NextFeedback]_vars

(***************************************************************************)
(* The components by themselves: the loaders of ingest.py and              *)
(* enhanced_ingest.py applied to a directory, and EnhancedRAGPipeline      *)
(* (enhanced_rag_pipeline.py) building, saving and loading an index.  No   *)
(* application is running (app = "none"); the directory is any set of the  *)
(* files below.                                                            *)
(***************************************************************************)
StoredFile(id, stem, ext, content) ==
    [path |-> [file_id |-> id, filename |-> [stem |-> stem, ext |-> ext]],
     content |-> content]

ComponentFiles == {StoredFile(1, "a", ".pdf", "two"),
                   StoredFile(2, "b", ".pdf", "corrupt"),
                   StoredFile(3, "n", ".txt", "one"),
                   StoredFile(4, "r", ".md", "one")}

\* enhanced_rag_pipeline.py build_vector_store (lines 22-27):
\* FAISS.from_documents, then save_local("./vector_store").
EnhancedRAGPipeline_build_vector_store(chunks, outcome) ==
    LET built == build_vector_store(chunks, outcome)
    IN [raised |-> built.raised, store |-> built.store,
        saved |-> IF built.raised THEN persisted ELSE Persisted(built.store)]

\* enhanced_rag_pipeline.py load_vector_store (lines 29-34): FAISS.load_local
\* raises when the location is missing or unreadable; the bare except
\* returns None.
load_vector_store(location) ==
    IF location.state = "saved"
    THEN [raised |-> FALSE, returned |-> location.store]
    ELSE [raised |-> FALSE, returned |-> None]

\* The splitters the two loaders construct: ingest.py line 11,
\* enhanced_ingest.py lines 14-17.
Splitter == [chunk_size |-> 500, chunk_overlap |-> 50]
EnhancedSplitter == [chunk_size |-> 1000, chunk_overlap |-> 200]

\* enhanced_ingest.py ingest_web_content (lines 55-66): every URL is loaded
\* with WebBaseLoader, one that raises is skipped; the documents are split
\* and returned as the splitter leaves them.
Urls == {"http://up", "http://down"}

ingest_web_content(urls) ==
    [raised |-> FALSE,
     chunks |-> {[source |-> url, index |-> 1] : url \in urls \cap {"http://up"}}]

\* app_v2.py Settings page (lines 335-338, 354-357): two independent
\* sliders, chunk size 100..2000 and chunk overlap 0..500; the Save button
\* answers with the success message whatever they show.
ChunkSizes == {100, 1000, 2000}
ChunkOverlaps == {0, 200, 500}

ComponentFrame ==
    UNCHANGED <<app, docs, qa_chain, query_logs, feedback_data, rag_pipeline,
                doc_processor, query_history, system_stats, pending, tmp,
                chain_runs, all_queries, all_feedback>>

\* A caller runs a loader over the directory.
call_ingest_documents ==
    /\ last' = [op |-> "ingest_documents", status |-> 0, kind |-> "chunks",
                raised |-> ingest_documents(docs).raised,
                chunks |-> ingest_documents(docs).chunks,
                splitter |-> Splitter]
    /\ UNCHANGED <<vector_store, persisted>>
    /\ ComponentFrame

call_enhanced_ingest_documents ==
    /\ last' = [op |-> "EnhancedDocumentIngestor.ingest_documents",
                status |-> 0, kind |-> "chunks",
                raised |-> EnhancedDocumentIngestor_ingest_documents(docs).raised,
                chunks |-> EnhancedDocumentIngestor_ingest_documents(docs).chunks,
                splitter |-> EnhancedSplitter]
    /\ UNCHANGED <<vector_store, persisted>>
    /\ ComponentFrame

call_ingest_web_content(urls) ==
    /\ last' = [op |-> "ingest_web_content", status |-> 0, kind |-> "chunks",
                raised |-> ingest_web_content(urls).raised,
                chunks |-> ingest_web_content(urls).chunks,
                splitter |-> EnhancedSplitter]
    /\ UNCHANGED <<vector_store, persisted>>
    /\ ComponentFrame

save_settings(chunk_size, chunk_overlap) ==
    /\ last' = [op |-> "save_settings", status |-> 0, kind |-> "success",
                message |-> "Settings saved successfully!",
                chunk_size |-> chunk_size, chunk_overlap |-> chunk_overlap]
    /\ UNCHANGED <<vector_store, persisted>>
    /\ ComponentFrame

\* A caller builds the index from the chunks a loader just returned, and
\* keeps it.
call_build_vector_store(outcome) ==
    /\ last.kind = "chunks"
    /\ ~last.raised
    /\ LET built == EnhancedRAGPipeline_build_vector_store(last.chunks, outcome)
       IN /\ persisted' = built.saved
          /\ vector_store' = IF built.raised THEN vector_store ELSE built.store
          /\ last' = [op |-> "build_vector_store", status |-> 0,
                      kind |-> "store", raised |-> built.raised]
    /\ ComponentFrame

\* The files at ./vector_store are deleted or damaged from outside.
damage(location) ==
    /\ persisted' = location
    /\ last' = [op |-> "damage", status |-> 0, kind |-> "none"]
    /\ UNCHANGED vector_store
    /\ ComponentFrame

\* A caller (a restarted process) loads the saved index and keeps what the
\* call returns.
call_load_vector_store ==
    /\ LET loaded == load_vector_store(persisted)
       IN /\ vector_store' = loaded.returned
          /\ last' = [op |-> "load_vector_store", status |-> 0,
                      kind |-> "loaded", location |-> persisted,
                      raised |-> loaded.raised, returned |-> loaded.returned]
    /\ UNCHANGED persisted
    /\ ComponentFrame

StartComponents ==
    /\ app = "none"
    /\ docs \in SUBSET ComponentFiles
    /\ vector_store = None
    /\ qa_chain = None
    /\ query_logs = <<>>
    /\ feedback_data = <<>>
    /\ rag_pipeline = FALSE
    /\ doc_processor = FALSE
    /\ query_history = <<>>
    /\ system_stats = [total_documents |-> 0, total_queries |-> 0,
                       total_response_time |-> 0]
    /\ pending = EmptyBag
    /\ persisted = Missing
    /\ tmp = {}
    /\ chain_runs = 0
    /\ all_queries = <<>>
    /\ all_feedback = <<>>
    /\ last = [op |-> "startup", status |-> 0, kind |-> "none"]

NextComponents ==
    \/ call_ingest_documents
    \/ call_enhanced_ingest_documents
    \/ \E urls \in SUBSET Urls : call_ingest_web_content(urls)
    \/ \E chunk_size \in ChunkSizes, chunk_overlap \in ChunkOverlaps :
          save_settings(chunk_size, chunk_overlap)
    \/ \E outcome \in Outcomes : call_build_vector_store(outcome)
    \/ \E location \in {Missing, Corrupt} : damage(location)
    \/ call_load_vector_store

SpecComponents == StartComponents /\ [][NextComponents]_vars

(***************************************************************************)
(* Ingest requests that overlap.  Both ingest handlers open the target     *)
(* file for writing (it exists, empty, from then on) and then suspend at   *)
(* await file.read(); other requests run until the read returns.  What     *)
(* follows the last read (loading the directory, building store and chain) *)
(* has no await and runs in one piece.  The actions ingest and             *)
(* enhanced_ingest above are these steps with nothing in between.          *)
(***************************************************************************)
Empty(path) == [path |-> path, content |-> "empty"]

\* main.py lines 12-13 up to the await: open(f"docs/{file.filename}", "wb")
ingest_begin(file, bvs, gqc) ==
    /\ app = "main"
    /\ LET path == [file_id |-> 0, filename |-> file.filename]
           req == [files |-> <<file>>, bvs |-> bvs, gqc |-> gqc]
       IN /\ docs' = {f \in docs : f.path # path} \cup {Empty(path)}
          /\ pending' = pending (+) SetToBag({[request |-> req, path |-> path]})
          /\ last' = [op |-> "ingest", status |-> 0, kind |-> "await",
                      request |-> req]
    /\ UNCHANGED <<app, persisted, tmp, vector_store, qa_chain, query_logs,
                   feedback_data, rag_pipeline, doc_processor, query_history,
                   system_stats, chain_runs, all_queries, all_feedback>>

\* What the file holds after this request has written its bytes from
\* offset 0 and closed it: its bytes; if another request wrote the same
\* path other bytes after this one opened it, its bytes, followed by what
\* is left of the earlier write if that was longer (here: unreadable).
Written(dir, path, content) ==
    IF Empty(path) \in dir \/ [path |-> path, content |-> content] \in dir
    THEN {content}
    ELSE {content, "corrupt"}

\* main.py lines 13-18 from the await on
ingest_read(p) ==
    /\ app = "main"
    /\ p \in BagToSet(pending)
    /\ pending' = pending (-) SetToBag({p})
    /\ \E content \in Written(docs, p.path, p.request.files[1].content) :
       LET dir == {f \in docs : f.path # p.path}
                    \cup {[path |-> p.path, content |-> content]}
           loaded == ingest_documents(dir)
           built == build_vector_store(loaded.chunks, p.request.bvs)
           chain == get_qa_chain(built.store, p.request.gqc)
           \* the files that were open for writing when the directory was read
           unwritten == {f \in dir : f.content = "empty"}
           failed == [op |-> "ingest", status |-> 500, kind |-> "error",
                      detail |-> "Internal Server Error",
                      request |-> p.request, unwritten |-> unwritten]
       IN /\ docs' = dir
          /\ IF loaded.raised \/ built.raised
             THEN /\ UNCHANGED <<vector_store, qa_chain>>
                  /\ last' = failed
             ELSE /\ vector_store' = built.store
                  /\ IF chain.raised
                     THEN /\ UNCHANGED qa_chain
                          /\ last' = failed
                     ELSE /\ qa_chain' = chain.chain
                          /\ last' = [op |-> "ingest", status |-> 200,
                                      kind |-> "ingested", request |-> p.request,
                                      unwritten |-> unwritten]
    /\ UNCHANGED <<app, persisted, tmp, query_logs, feedback_data, rag_pipeline,
                   doc_processor, query_history, system_stats, chain_runs,
                   all_queries, all_feedback>>

\* main_v2.py lines 76-87 up to the first await: the first file is opened
enhanced_ingest_begin(files, bvs, gqc) ==
    /\ app = "main_v2"
    /\ LET path == [file_id |-> Cardinality(docs) + 1,
                    filename |-> files[1].filename]
           req == [files |-> files, bvs |-> bvs, gqc |-> gqc]
       IN /\ docs' = docs \cup {Empty(path)}
          /\ pending' = pending (+) SetToBag({[request |-> req, i |-> 1,
                                               path |-> path, results |-> <<>>]})
          /\ last' = [op |-> "enhanced_ingest", status |-> 0, kind |-> "await",
                      request |-> req]
    /\ UNCHANGED <<app, persisted, tmp, vector_store, qa_chain, query_logs,
                   feedback_data, rag_pipeline, doc_processor, query_history,
                   system_stats, chain_runs, all_queries, all_feedback>>

\* main_v2.py lines 87-115 from an await on: the bytes are written and the
\* result "saved" is appended; then the next file is opened, or, after the
\* last one, the directory is processed.
enhanced_ingest_read(p) ==
    /\ app = "main_v2"
    /\ p \in BagToSet(pending)
    /\ LET files == p.request.files
           written == (docs \ {Empty(p.path)})
                        \cup {[path |-> p.path, content |-> files[p.i].content]}
           results == Append(p.results,
                             [file_id |-> p.path.file_id,
                              filename |-> p.path.filename, status |-> "saved"])
       IN IF p.i < Len(files)
          THEN LET path == [file_id |-> Cardinality(docs) + 1,
                            filename |-> files[p.i + 1].filename]
               IN /\ docs' = written \cup {Empty(path)}
                  /\ pending' = (pending (-) SetToBag({p}))
                                  (+) SetToBag({[request |-> p.request,
                                                 i |-> p.i + 1, path |-> path,
                                                 results |-> results]})
                  /\ last' = [op |-> "enhanced_ingest", status |-> 0,
                              kind |-> "await", request |-> p.request]
                  /\ UNCHANGED <<vector_store, qa_chain>>
          ELSE LET loaded == ingest_documents(written)
                   built == build_vector_store(loaded.chunks, p.request.bvs)
                   chain == get_qa_chain(built.store, p.request.gqc)
                   \* the files that were open for writing when the
                   \* directory was read
                   unwritten == {f \in written : f.content = "empty"}
                   failed == [op |-> "enhanced_ingest", status |-> 500,
                              kind |-> "error", detail |-> "Processing error",
                              request |-> p.request, unwritten |-> unwritten]
               IN /\ docs' = written
                  /\ pending' = pending (-) SetToBag({p})
                  /\ IF loaded.raised
                     THEN /\ UNCHANGED <<vector_store, qa_chain>>
                          /\ last' = failed
                     ELSE IF loaded.chunks = {}
                     THEN /\ UNCHANGED <<vector_store, qa_chain>>
                          /\ last' = [op |-> "enhanced_ingest", status |-> 200,
                                      kind |-> "results", results |-> results,
                                      total_chunks |-> 0, request |-> p.request,
                                      unwritten |-> unwritten]
                     ELSE IF built.raised
                     THEN /\ UNCHANGED <<vector_store, qa_chain>>
                          /\ last' = failed
                     ELSE /\ vector_store' = built.store
                          /\ IF chain.raised
                             THEN /\ UNCHANGED qa_chain
                                  /\ last' = failed
                             ELSE /\ qa_chain' = chain.chain
                                  /\ last' = [op |-> "enhanced_ingest",
                                              status |-> 200, kind |-> "results",
                                              results |-> Processed(results,
                                                  Cardinality(loaded.chunks)),
                                              total_chunks |->
                                                  Cardinality(loaded.chunks),
                                              request |-> p.request,
                                              unwritten |-> unwritten]
    /\ UNCHANGED <<app, persisted, tmp, query_logs, feedback_data, rag_pipeline,
                   doc_processor, query_history, system_stats, chain_runs,
                   all_queries, all_feedback>>

\* The uploads of the overlapping requests: readable PDFs, and the
\* embedding and LLM providers answer, so that a request can only fail
\* through what another request does.
ConcurrentUploads ==
    {[filename |-> [stem |-> "a", ext |-> ".pdf"], content |-> "one"],
     [filename |-> [stem |-> "b", ext |-> ".pdf"], content |-> "two"]}

ConcurrentBatches == UNION {[1..n -> ConcurrentUploads] : n \in 1..MaxBatch}

NextConcurrentIngest ==
    \/ \E file \in ConcurrentUploads :
          /\ BagCardinality(pending) < MaxPending
          /\ ingest_begin(file, "ok", "ok")
    \/ \E p \in BagToSet(pending) : ingest_read(p)
    \/ \E files \in ConcurrentBatches :
          /\ BagCardinality(pending) < MaxPending
          /\ Cardinality(docs) < MaxDocs
          /\ enhanced_ingest_begin(files, "ok", "ok")
    \/ \E p \in BagToSet(pending) : enhanced_ingest_read(p)

SpecConcurrentIngest == Start({"main", "main_v2"}) /\ [][NextConcurrentIngest]_vars

(***************************************************************************)
(* External LLM calls in flight.  main.py (line 24) and main_v2.py (line   *)
(* 130) call qa_chain.run inside an async handler without an await: the    *)
(* event loop runs nothing else until the call is back.  enhanced_main.py  *)
(* (lines 283-287) awaits the call in a thread.  No call is given a        *)
(* timeout: it ends when the provider answers or fails, and a provider     *)
(* that does neither leaves it in flight.  The uploads here are readable   *)
(* and the embedding provider answers.                                     *)
(***************************************************************************)
\* A synchronous call is in progress on the event loop's thread.
Blocked == \E p \in BagToSet(pending) : "blocking" \in DOMAIN p

\* The provider will never answer this call.
Hung(p) == "hung" \in DOMAIN p

never_returns(p) ==
    /\ p \in BagToSet(pending)
    /\ ~Hung(p)
    /\ pending' = (pending (-) SetToBag({p})) (+) SetToBag({p @@ [hung |-> TRUE]})
    /\ last' = [op |-> "provider", status |-> 0, kind |-> "none"]
    /\ UNCHANGED <<app, persisted, tmp, docs, vector_store, qa_chain, query_logs,
                   feedback_data, rag_pipeline, doc_processor, query_history,
                   system_stats, chain_runs, all_queries, all_feedback>>

\* main.py lines 21-24 up to the call of qa_chain.run
query_call(q) ==
    /\ app = "main"
    /\ ~Blocked
    /\ LET req == [question |-> q]
       IN IF qa_chain = None
          THEN /\ last' = QueryError("query", 200, "No data ingested yet.",
                                  req, "none")
               /\ UNCHANGED <<chain_runs, pending>>
          ELSE /\ chain_runs' = chain_runs + 1
               /\ pending' = pending (+) SetToBag({[request |-> req,
                                                    blocking |-> TRUE]})
               /\ last' = [op |-> "query", status |-> 0, kind |-> "call",
                           request |-> req, run |-> "started"]
    /\ UNCHANGED <<app, persisted, tmp, docs, vector_store, qa_chain, query_logs,
                   feedback_data, rag_pipeline, doc_processor, query_history,
                   system_stats, all_queries, all_feedback>>

\* main.py lines 24-25 from the return of qa_chain.run on
query_return(p, run, answer) ==
    /\ app = "main"
    /\ p \in BagToSet(pending)
    /\ ~Hung(p)
    /\ pending' = pending (-) SetToBag({p})
    /\ last' = IF run = "raise"
               THEN QueryError("query", 500, "Internal Server Error",
                               p.request, "raise")
               ELSE [op |-> "query", status |-> 200, kind |-> "answer",
                     answer |-> answer, request |-> p.request, run |-> "ok"]
    /\ UNCHANGED <<app, persisted, tmp, docs, vector_store, qa_chain, query_logs,
                   feedback_data, rag_pipeline, doc_processor, query_history,
                   system_stats, chain_runs, all_queries, all_feedback>>

\* main_v2.py lines 118-130 up to the call of qa_chain.run
enhanced_query_call(request) ==
    /\ app = "main_v2"
    /\ ~Blocked
    /\ IF qa_chain = None
       THEN /\ last' = NotReadyV2(request)
            /\ UNCHANGED <<chain_runs, pending>>
       ELSE /\ chain_runs' = chain_runs + 1
            /\ pending' = pending (+) SetToBag({[request |-> request,
                                                 blocking |-> TRUE]})
            /\ last' = [op |-> "enhanced_query", status |-> 0, kind |-> "call",
                        request |-> request, run |-> "started"]
    /\ UNCHANGED <<app, persisted, tmp, docs, vector_store, qa_chain, query_logs,
                   feedback_data, rag_pipeline, doc_processor, query_history,
                   system_stats, all_queries, all_feedback>>

\* main_v2.py lines 130-158 from the return of qa_chain.run on
enhanced_query_return(p, run, answer) ==
    /\ app = "main_v2"
    /\ p \in BagToSet(pending)
    /\ ~Hung(p)
    /\ pending' = pending (-) SetToBag({p})
    /\ IF run = "raise"
       THEN /\ last' = QueryError("enhanced_query", 500, "Query error",
                                    p.request, "raise")
            /\ UNCHANGED <<query_logs, all_queries>>
       ELSE LET query_log == [query_id |-> Len(all_queries) + 1,
                              question |-> p.request.question,
                              answer |-> answer,
                              llm_provider |-> p.request.llm_provider,
                              timestamp |-> Len(all_queries) + 1]
            IN /\ query_logs' = CapQueryLogs(Append(query_logs, query_log))
               /\ all_queries' = Append(all_queries, query_log)
               /\ \E used \in Retrieve(qa_chain) :
                     last' = [op |-> "enhanced_query", status |-> 200,
                              kind |-> "answer", answer |-> answer,
                              sources |-> <<>>,
                              query_id |-> query_log.query_id,
                              request |-> p.request, run |-> "ok",
                              used |-> used]
    /\ UNCHANGED <<app, persisted, tmp, docs, vector_store, qa_chain, feedback_data,
                   rag_pipeline, doc_processor, query_history, system_stats,
                   chain_runs, all_feedback>>

\* A request handler is entered: the event loop is free to run it.
StartQuery ==
    \/ \E q \in Questions : query_call(q)
    \/ enhanced_query_call(LogRequestV2)
    \/ \E current_user \in Users : process_query_begin(LogRequest, current_user)

ServeHealth ==
    \/ ~Blocked /\ health_check_v2({"OPENAI_API_KEY"})
    \/ health_check

\* A call the provider answers (or fails) comes back and its handler goes on.
Returns ==
    \/ \E p \in BagToSet(pending), run \in Outcomes : query_return(p, run, "Paris")
    \/ \E p \in BagToSet(pending), run \in Outcomes :
          enhanced_query_return(p, run, "Paris")
    \/ \E p \in BagToSet(pending), run \in Outcomes :
          ~Hung(p) /\ process_query_end(p, run, LogResult, 1)

NextExternalCalls ==
    \/ docs = {} /\ ~Blocked /\ ingest(LogUpload, "ok", "ok")
    \/ docs = {} /\ ~Blocked /\ enhanced_ingest(<<LogUpload>>, "ok", "ok")
    \/ /\ chain_runs < MaxRuns
       /\ BagCardinality(pending) < MaxPending
       /\ StartQuery
    \/ ServeHealth
    \/ \E p \in BagToSet(pending) : never_returns(p)
    \/ Returns

\* The event loop resumes a handler whose call has come back.
SpecExternalCalls ==
    Start(Apps) /\ [][NextExternalCalls]_vars /\ WF_vars(Returns)

(***************************************************************************)
(* enhanced_main.py upload_document (lines 212-253), requests that         *)
(* overlap.  The handler suspends at await file.read() and, when           *)
(* doc_processor is set, at await asyncio.to_thread(process_document,      *)
(* file_path); the path is /tmp/<filename>, the same for every request     *)
(* with that file name.  process_document reads the file at the path when  *)
(* its thread runs.  No lock is taken.                                     *)
(***************************************************************************)
AtPath(dir, filename) == {f \in dir : f.filename = filename}

\* lines 218-226 up to await file.read()
upload_document_begin(file, current_user) ==
    /\ app = "enhanced_main"
    /\ pending' = pending (+) SetToBag({[upload |-> file, stage |-> "read"]})
    /\ last' = [op |-> "upload_document", status |-> 0, kind |-> "await",
                request |-> file]
    /\ UNCHANGED <<app, persisted, tmp, docs, vector_store, qa_chain,
                   query_logs, feedback_data, rag_pipeline, doc_processor,
                   query_history, system_stats, chain_runs, all_queries,
                   all_feedback>>

\* lines 226-233: the bytes are written to the path; with a doc_processor
\* the handler suspends again, without one it removes the file and answers.
upload_document_read(p) ==
    /\ app = "enhanced_main"
    /\ p \in BagToSet(pending)
    /\ p.stage = "read"
    /\ LET file == p.upload
           written == (tmp \ AtPath(tmp, file.filename)) \cup {file}
       IN IF doc_processor
          THEN /\ tmp' = written
               /\ pending' = (pending (-) SetToBag({p}))
                               (+) SetToBag({[upload |-> file,
                                              stage |-> "thread"]})
               /\ last' = [op |-> "upload_document", status |-> 0,
                           kind |-> "await", request |-> file]
          ELSE /\ tmp' = written \ AtPath(written, file.filename)
               /\ pending' = pending (-) SetToBag({p})
               /\ last' = [op |-> "upload_document", status |-> 200,
                           kind |-> "processed", chunks_created |-> 0,
                           processed |-> "nothing", request |-> file]
    /\ UNCHANGED <<app, persisted, docs, vector_store, qa_chain, query_logs,
                   feedback_data, rag_pipeline, doc_processor, query_history,
                   system_stats, chain_runs, all_queries, all_feedback>>

\* The thread runs doc_processor.process_document(file_path): it reads what
\* is at the path now; it raises when nothing is.
process_document(p) ==
    /\ app = "enhanced_main"
    /\ p \in BagToSet(pending)
    /\ p.stage = "thread"
    /\ \E seen \in IF AtPath(tmp, p.upload.filename) = {} THEN {"missing"}
                   ELSE {f.content : f \in AtPath(tmp, p.upload.filename)} :
          pending' = (pending (-) SetToBag({p}))
                       (+) SetToBag({[upload |-> p.upload, stage |-> "processed",
                                      seen |-> seen]})
    /\ last' = [op |-> "process_document", status |-> 0, kind |-> "none"]
    /\ UNCHANGED <<app, persisted, tmp, docs, vector_store, qa_chain,
                   query_logs, feedback_data, rag_pipeline, doc_processor,
                   query_history, system_stats, chain_runs, all_queries,
                   all_feedback>>

\* lines 233-253 from the return of the thread on.  An exception of
\* process_document, or of os.remove on a path that is gone, ends in the
\* except: status 500, whatever was done before it stays.
upload_document_end(p) ==
    /\ app = "enhanced_main"
    /\ p \in BagToSet(pending)
    /\ p.stage = "processed"
    /\ pending' = pending (-) SetToBag({p})
    /\ LET file == p.upload
           failed == [op |-> "upload_document", status |-> 500,
                      kind |-> "error", detail |-> "Upload failed",
                      request |-> file]
       IN IF p.seen \in Unreadable \cup {"missing"}
          THEN /\ last' = failed
               /\ UNCHANGED <<tmp, system_stats>>
          ELSE /\ system_stats' = [system_stats EXCEPT !.total_documents = @ + 1]
               /\ tmp' = tmp \ AtPath(tmp, file.filename)
               /\ last' = IF AtPath(tmp, file.filename) = {}
                          THEN failed
                          ELSE [op |-> "upload_document", status |-> 200,
                                kind |-> "processed",
                                chunks_created |-> NumChunks(p.seen),
                                processed |-> p.seen, request |-> file]
    /\ UNCHANGED <<app, persisted, docs, vector_store, qa_chain, query_logs,
                   feedback_data, rag_pipeline, doc_processor, query_history,
                   chain_runs, all_queries, all_feedback>>

\* Uploads that carry the same file name: readable documents, with the
\* same bytes or with different ones.
SameNameUploads == {[filename |-> [stem |-> "a", ext |-> ".pdf"], content |-> c]
                      : c \in {"one", "two"}}

\* The uploads of the overlapping requests: those, and one of another name.
UploadFiles ==
    SameNameUploads
      \cup {[filename |-> [stem |-> "n", ext |-> ".txt"], content |-> "one"]}

NextUpload ==
    \/ \E file \in UploadFiles, current_user \in Users :
          /\ system_stats.total_documents + BagCardinality(pending) < MaxDocs
          /\ BagCardinality(pending) < MaxPending
          /\ upload_document_begin(file, current_user)
    \/ \E p \in BagToSet(pending) : upload_document_read(p)
    \/ \E p \in BagToSet(pending) : process_document(p)
    \/ \E p \in BagToSet(pending) : upload_document_end(p)

SpecUpload == Start({"enhanced_main"}) /\ [][NextUpload]_vars

(***************************************************************************)
(* The payment service of the tracing example                              *)
(* (src/microservices-platform/tracing/instrumentation/python/tracing.py), *)
(* a Flask application of its own: app = "payment-service".  A request is  *)
(* followed through create_payment call by call; pending holds the         *)
(* requests being served (the development server runs each in a thread;    *)
(* they share no data).                                                    *)
(***************************************************************************)
required_fields == <<"amount", "currency", "method", "card_number">>

\* JSON values of the field amount: numbers, and one that is not a number.
Amounts == {[type |-> "number", value |-> 10], [type |-> "number", value |-> 0],
            [type |-> "number", value |-> -5], [type |-> "string", value |-> 0]}

\* Request bodies: a JSON object with any of the four fields (amount
\* matters only when the field is there), or JSON that is not an object.
Payloads ==
    {d \in [json : {"object"},
            fields : SUBSET {required_fields[i] : i \in 1..Len(required_fields)},
            amount : Amounts] :
        "amount" \notin d.fields => d.amount = [type |-> "number", value |-> 0]}
    \cup {[json |-> "array", fields |-> {},
           amount |-> [type |-> "number", value |-> 0]]}

\* The first required field the payload lacks.
FirstMissing(data) ==
    LET missing == {i \in 1..Len(required_fields) :
                       required_fields[i] \notin data.fields}
    IN required_fields[CHOOSE i \in missing : \A j \in missing : i <= j]

\* Faulty variant: the sign of the amount is not looked at.
validate_payment_AnyAmount(data) ==
    IF \E i \in 1..Len(required_fields) : required_fields[i] \notin data.fields
    THEN [raised |-> "ValueError",
          detail |-> <<"Missing required field", FirstMissing(data)>>]
    ELSE IF data.amount.type # "number"
    THEN [raised |-> "TypeError", detail |-> <<"'<=' not supported">>]
    ELSE [raised |-> "none", detail |-> <<>>]

\* validate_payment (lines 84-100): the fields in order, then
\* data['amount'] <= 0, which Python refuses to evaluate for a string.
validate_payment(data) ==
    IF \E i \in 1..Len(required_fields) : required_fields[i] \notin data.fields
    THEN [raised |-> "ValueError",
          detail |-> <<"Missing required field", FirstMissing(data)>>]
    ELSE IF data.amount.type # "number"
    THEN [raised |-> "TypeError", detail |-> <<"'<=' not supported">>]
    ELSE IF data.amount.value <= 0
    THEN [raised |-> "ValueError", detail |-> <<"Amount must be positive">>]
    ELSE [raised |-> "none", detail |-> <<>>]

\* process_payment (lines 102-127): the simulated charge always succeeds.
process_payment(payment_data) ==
    [id |-> "pay_123456789", status |-> "success",
     amount |-> payment_data.amount]

PaymentFrame ==
    UNCHANGED <<app, persisted, tmp, docs, vector_store, qa_chain, query_logs,
                feedback_data, rag_pipeline, doc_processor, query_history,
                system_stats, chain_runs, all_queries, all_feedback>>

\* The response of create_payment; calls: the functions it has run for this
\* request, in order (history).
PaymentResponse(status, body, data, calls) ==
    [op |-> "create_payment", status |-> status, kind |-> "response",
     body |-> body, request |-> data, calls |-> calls]

\* lines 51-58: request.json.get raises AttributeError on JSON that is not
\* an object (except Exception: 500); else validate_payment is called next.
create_payment_begin(data) ==
    /\ app = "payment-service"
    /\ IF data.json # "object"
       THEN /\ last' = PaymentResponse(500, <<"Internal server error">>,
                                       data, <<>>)
            /\ UNCHANGED pending
       ELSE /\ pending' = pending (+) SetToBag({[payment |-> data,
                                                 next |-> "validate_payment",
                                                 calls |-> <<>>]})
            /\ last' = [op |-> "create_payment", status |-> 0, kind |-> "call",
                        request |-> data]
    /\ PaymentFrame

\* line 61, and the except clauses of lines 74-82 for what it raises
create_payment_validate(p) ==
    /\ app = "payment-service"
    /\ p \in BagToSet(pending)
    /\ p.next = "validate_payment"
    /\ LET checked == validate_payment(p.payment)
           calls == Append(p.calls, "validate_payment")
       IN IF checked.raised = "ValueError"
          THEN /\ pending' = pending (-) SetToBag({p})
               /\ last' = PaymentResponse(400, checked.detail, p.payment, calls)
          ELSE IF checked.raised # "none"
          THEN /\ pending' = pending (-) SetToBag({p})
               /\ last' = PaymentResponse(500, <<"Internal server error">>,
                                          p.payment, calls)
          ELSE /\ pending' = (pending (-) SetToBag({p}))
                               (+) SetToBag({[payment |-> p.payment,
                                              next |-> "process_payment",
                                              calls |-> calls]})
               /\ last' = [op |-> "create_payment", status |-> 0,
                           kind |-> "call", request |-> p.payment]
    /\ PaymentFrame

\* line 64
create_payment_process(p) ==
    /\ app = "payment-service"
    /\ p \in BagToSet(pending)
    /\ p.next = "process_payment"
    /\ pending' = (pending (-) SetToBag({p}))
                    (+) SetToBag({[payment |-> p.payment,
                                   next |-> "send_notification",
                                   calls |-> Append(p.calls, "process_payment"),
                                   payment_result |-> process_payment(p.payment)]})
    /\ last' = [op |-> "create_payment", status |-> 0, kind |-> "call",
                request |-> p.payment]
    /\ PaymentFrame

\* lines 67-72: send_notification(payment_result), then the answer 201
create_payment_notify(p) ==
    /\ app = "payment-service"
    /\ p \in BagToSet(pending)
    /\ p.next = "send_notification"
    /\ pending' = pending (-) SetToBag({p})
    /\ last' = PaymentResponse(201, <<p.payment_result.id>>, p.payment,
                               Append(p.calls, "send_notification"))
    /\ PaymentFrame

NextPayment ==
    \/ \E data \in Payloads :
          BagCardinality(pending) < MaxPending /\ create_payment_begin(data)
    \/ \E p \in BagToSet(pending) : create_payment_validate(p)
    \/ \E p \in BagToSet(pending) : create_payment_process(p)
    \/ \E p \in BagToSet(pending) : create_payment_notify(p)

SpecPayment == Start({"payment-service"}) /\ [][NextPayment]_vars

(***************************************************************************)
(* Properties.                                                             *)
(***************************************************************************)
QueryOps == {"query", "enhanced_query", "process_query"}
IngestOps == {"ingest", "enhanced_ingest"}

\* The pipeline has no chain to run a query with.
NotReady == IF app = "enhanced_main" THEN ~rag_pipeline ELSE qa_chain = None

NotReadyDetails ==
    {"No data ingested yet.",
     "No data ingested yet. Please upload documents first.",
     "Query failed: 503: RAG pipeline not initialized"}

\* The chunks the loader makes of the files of one request, taken alone.
ProducedChunks(files) ==
    ingest_documents({[path |-> [file_id |-> i, filename |-> files[i].filename],
                       content |-> files[i].content] : i \in 1..Len(files)}).chunks

\* C1: a query issued while no chain is set (before any successful
\* ingestion) is answered with the not-ready error, carries no answer, and
\* the chain is not called.
C1_NotReadyQueryRejected ==
    [][(last'.op \in QueryOps /\ NotReady)
         => /\ last'.kind = "error"
            /\ last'.detail \in NotReadyDetails
            /\ "answer" \notin DOMAIN last'
            /\ last'.run = "none"
            /\ chain_runs' = chain_runs]_vars

C1_Witness ==
    /\ last.op \in {"query", "enhanced_query"}
    /\ qa_chain = None
    /\ last.kind = "error"
    /\ last.run = "none"

\* C2: an ingest request none of whose inputs produced a chunk leaves an
\* UNLOADED pipeline UNLOADED (vector_store and qa_chain unset), and while
\* it is UNLOADED every query fails with the not-ready error.
C2_NoChunkStaysUnloaded ==
    [][/\ (/\ last'.op \in IngestOps
           /\ vector_store = None /\ qa_chain = None
           /\ ProducedChunks(last'.request.files) = {})
          => (vector_store' = None /\ qa_chain' = None)
       /\ (last'.op \in {"query", "enhanced_query"} /\ qa_chain = None)
          => (last'.kind = "error" /\ last'.run = "none")]_vars

\* C3: a batch with at least one input that loads and at least one that
\* fails to load (the external providers working) does not abort: the
\* request succeeds, the pipeline is READY, the index holds chunks.
Loads(f) == f.filename.ext = ".pdf" /\ NumChunks(f.content) > 0
FailsToLoad(f) == f.filename.ext = ".pdf" /\ f.content = "corrupt"

C3_FailureIsolated ==
    (/\ last.op = "enhanced_ingest"
     /\ last.request.bvs = "ok" /\ last.request.gqc = "ok"
     /\ \E i \in 1..Len(last.request.files) : Loads(last.request.files[i])
     /\ \E i \in 1..Len(last.request.files) : FailsToLoad(last.request.files[i]))
    => /\ last.status = 200
       /\ vector_store # None
       /\ qa_chain # None

\* C4: for every directory content, ingest_documents (both loaders) does
\* not raise and returns exactly the chunks of the readable files of the
\* formats it supports.
Bare(chunks) == {[source |-> c.source, index |-> c.index] : c \in chunks}

C4_LoaderResilient ==
    /\ ~ingest_documents(docs).raised
    /\ ingest_documents(docs).chunks
         = UNION {ChunksOf(f) : f \in {g \in docs : /\ g.path.filename.ext = ".pdf"
                                                    /\ g.content # "corrupt"}}
    /\ ~EnhancedDocumentIngestor_ingest_documents(docs).raised
    /\ Bare(EnhancedDocumentIngestor_ingest_documents(docs).chunks)
         = UNION {ChunksOf(f) : f \in {g \in docs : /\ g.path.filename.ext \in SupportedExts
                                                    /\ g.content # "corrupt"}}

\* C5: in the response of an ingest request an input is "processed" only
\* if chunks were produced from it, and an input that could not be loaded
\* (corrupt or unsupported) has status "error".
C5_StatusPerInput ==
    (last.op = "enhanced_ingest" /\ last.status = 200)
    => \A i \in 1..Len(last.results) :
          /\ last.results[i].status = "processed" => Loads(last.request.files[i])
          /\ ~Loads(last.request.files[i]) => last.results[i].status = "error"

\* C6: the chunk count an ingest request returns is the number of chunks
\* produced from the inputs of that request.
C6_ChunkCountOfRequest ==
    (last.op = "enhanced_ingest" /\ last.status = 200)
    => last.total_chunks = Cardinality(ProducedChunks(last.request.files))

\* C7: when the retrieval chain / pipeline raises for a query, the caller
\* gets an error and no response with answer text.
C7_FailedQueryHasNoAnswer ==
    (last.op \in QueryOps /\ last.run = "raise")
    => /\ last.kind = "error"
       /\ last.status = 500
       /\ "answer" \notin DOMAIN last

C7_Witness ==
    /\ last.op \in QueryOps
    /\ last.run = "raise"
    /\ last.kind = "error"

\* C8: a query request, answered or failed, leaves vector_store, qa_chain
\* (and the directory and the pipeline object) as they were.
C8_QueryKeepsIndex ==
    [][last'.op \in QueryOps
         => /\ vector_store' = vector_store
            /\ qa_chain' = qa_chain
            /\ docs' = docs
            /\ rag_pipeline' = rag_pipeline]_vars

C8_Witness ==
    /\ last.op = "enhanced_query"
    /\ last.run = "raise"
    /\ vector_store # None
    /\ qa_chain # None

\* s is the last Min(Len(all), cap) elements of all, in the order of all.
IsNewest(s, all, cap) ==
    /\ Len(s) <= cap
    /\ Len(s) = IF Len(all) < cap THEN Len(all) ELSE cap
    /\ \A i \in 1..Len(s) : s[i] = all[Len(all) - Len(s) + i]

C10_FeedbackNewestN ==
    /\ app = "main_v2" => IsNewest(feedback_data, all_feedback, 100)
    /\ app = "enhanced_main" => IsNewest(feedback_data, all_feedback, 1000)

C10_Witness ==
    /\ app = "enhanced_main"
    /\ Len(all_feedback) > 1000
    /\ Len(feedback_data) = 1000
    /\ feedback_data[1] = all_feedback[Len(all_feedback) - 999]

\* C11: every record stored in the feedback log has a rating in 1..5; a
\* submission with a rating outside 1..5 is rejected and leaves the log
\* unchanged.
C11_RatingValidated ==
    [][last'.op = "submit_feedback"
         => /\ \A i \in 1..Len(feedback_data') : feedback_data'[i].rating \in 1..5
            /\ last'.request.rating \notin 1..5
                 => (last'.kind = "error" /\ feedback_data' = feedback_data)]_vars

\* The result count a query request asks for lies outside 1..20.
OutOfRange(request) ==
    \/ "k" \in DOMAIN request /\ request.k \notin 1..20
    \/ "max_results" \in DOMAIN request /\ request.max_results \notin 1..20

\* C12: a query body without a result count is read as asking for 5, and a
\* request asking for a count outside 1..20 is rejected before the chain /
\* pipeline is called, leaving the statistics and the query log unchanged.
C12_MaxResultsValidated ==
    [][/\ \A body \in QueryBodies :
             "max_results" \notin DOMAIN body
                => /\ QueryRequest(body).ok
                   /\ QueryRequest(body).value.max_results = 5
       /\ \A body \in QueryBodiesV2 :
             "k" \notin DOMAIN body => QueryRequestV2(body).k = 5
       /\ (/\ last'.op \in {"enhanced_query", "process_query",
                            "request_validation"}
           /\ OutOfRange(last'.request))
          => /\ last'.kind = "error"
             /\ last'.run = "none"
             /\ chain_runs' = chain_runs
             /\ UNCHANGED <<query_logs, query_history, system_stats,
                            all_queries, pending>>]_vars

\* C13: a query asking for k results against an index of n records gets no
\* more than k and no fewer than min(k, n) chunks retrieved.
C13_RetrievalUsesRequestedK ==
    (last.op = "enhanced_query" /\ last.kind = "answer")
    => /\ Cardinality(last.used) <= last.request.k
       /\ Cardinality(last.used)
            >= Min(last.request.k, Cardinality(qa_chain.retriever.chunks))

\* C16: a chunk_size / overlap pair with overlap >= chunk_size is rejected
\* wherever one is given, and every splitter a loader constructs has a
\* positive chunk_size and an overlap below it.
C16_SplitterConfigValid ==
    /\ (last.op = "save_settings" /\ last.chunk_overlap >= last.chunk_size)
          => last.kind = "error"
    /\ "splitter" \in DOMAIN last
          => /\ last.splitter.chunk_size > 0
             /\ last.splitter.chunk_overlap < last.splitter.chunk_size

\* C17: every chunk a loader returns, from files or from URLs, carries
\* source and file_type.
C17_ChunksCarryProvenance ==
    (last.kind = "chunks" /\ ~last.raised)
    => \A c \in last.chunks : {"source", "file_type"} \subseteq DOMAIN c

\* The environment variable that holds a provider's credential.
KeyOf(provider) == CASE provider = "openai" -> "OPENAI_API_KEY"
                     [] provider = "anthropic" -> "ANTHROPIC_API_KEY"
                     [] provider = "google" -> "GOOGLE_API_KEY"

\* C18: the health response reports the index ready exactly when an index
\* has been built from ingested chunks, and lists a provider as available
\* only if that provider's API key is set.
C18_HealthReportsTruth ==
    (last.op = "health_check" /\ app = "main_v2")
    => /\ last.vector_store_ready
            <=> (vector_store # None /\ vector_store.chunks # {})
       /\ \A i \in 1..Len(last.available_llm_providers) :
             KeyOf(last.available_llm_providers[i]) \in last.environ

\* C19: the sources of an answered query name the source of every chunk
\* that was retrieved for it.
C19_SourcesOfUsedChunks ==
    (last.op = "enhanced_query" /\ last.kind = "answer" /\ last.used # {})
    => \A c \in last.used :
          \E i \in 1..Len(last.sources) : last.sources[i].source = c.source

\* The files of a directory that are copies of one upload (same name, same
\* bytes), and the records an index holds of a set of files.
Copies(dir, upload) ==
    {f \in dir : f.path.filename = upload.filename /\ f.content = upload.content}

RecordsOf(store, files) ==
    IF store = None THEN 0
    ELSE Cardinality({c \in store.chunks : c.source \in {f.path : f \in files}})

\* C14: when the index holds the records of a document once, a successful
\* ingest request uploading the same file again leaves it with twice as
\* many records of that document.
C14_SameDocumentTwiceDoubles ==
    [][(/\ last'.op \in IngestOps
        /\ last'.status = 200
        /\ Len(last'.request.files) = 1
        /\ Cardinality(Copies(docs, last'.request.files[1])) = 1
        /\ NumChunks(last'.request.files[1].content) > 0
        /\ RecordsOf(vector_store, Copies(docs, last'.request.files[1]))
             = NumChunks(last'.request.files[1].content))
       => RecordsOf(vector_store', Copies(docs', last'.request.files[1]))
            = 2 * NumChunks(last'.request.files[1].content)]_vars

\* C15: loading the index from a missing or corrupt location fails
\* explicitly (the call raises); it never returns a null or empty index.
C15_RestoreFailsExplicitly ==
    (last.op = "load_vector_store" /\ last.location.state # "saved")
    => last.raised

\* C20: overlapping ingest requests behave as if run one after the other:
\* no request reads the directory while it holds a file another request has
\* opened but not yet written, no request fails (the uploads are readable,
\* the providers answer), and when no request is in flight the index holds
\* the chunks of every file in the directory.
C20_IngestsSerialized ==
    /\ (last.op \in IngestOps /\ last.kind # "await")
          => /\ last.unwritten = {}
             /\ last.status = 200
    /\ (pending = EmptyBag /\ docs # {})
          => /\ vector_store # None
             /\ \A f \in docs : ChunksOf(f) \subseteq vector_store.chunks

\* C21: every query or ingest request that has started completes, with a
\* response or an error, whatever the external LLM or embedding call does,
\* never returning included.
C21_EveryRequestCompletes == (pending # EmptyBag) ~> (pending = EmptyBag)

\* C22: while a query is waiting for its LLM call, the server can start
\* another query or serve a health request.
C22_LLMCallDoesNotBlock ==
    (pending # EmptyBag) => ENABLED (StartQuery \/ ServeHealth)

\* C23: in every state qa_chain is set exactly when vector_store is set,
\* and the chain retrieves from the current vector_store.
C23_ChainOverCurrentStore ==
    app \in {"main", "main_v2"}
    => /\ (qa_chain = None) <=> (vector_store = None)
       /\ qa_chain # None => qa_chain.retriever = vector_store

C25_ResetAdminOnly ==
    [][(last'.op = "reset_system" /\ last'.request.user # "admin")
         => /\ last'.kind = "error"
            /\ last'.status = 403
            /\ last'.detail = "Admin access required"
            /\ UNCHANGED <<query_history, feedback_data, system_stats>>]_vars

\* C26: a history record made by a query of an authenticated user is
\* returned by get_query_history to that user only.
C26_HistoryPerUser ==
    last.op = "get_query_history"
    => \A i \in 1..Len(last.history) :
          last.history[i].user # "None"
             => last.history[i].user = last.request.user

\* The records of query_history the handler shows this caller.
Visible(user) ==
    IF user # "None" THEN RecordsOfUser(query_history, user) ELSE query_history

\* C27: get_query_history(limit), limit >= 0, returns at most limit
\* records: the most recent ones visible to the caller, oldest first.
C27_HistoryLimit ==
    (last.op = "get_query_history" /\ last.request.limit >= 0)
    => /\ Len(last.history) <= last.request.limit
       /\ last.history = LastN(Visible(last.request.user),
                               Len(last.history))
       /\ Len(last.history)
            = Min(last.request.limit, Len(Visible(last.request.user)))

\* C29: the response text of the query_history record of an answered query
\* is the response text returned to the caller.
C29_HistoryHoldsReturnedText ==
    [][(last'.op = "process_query" /\ last'.kind = "answer")
         => query_history'[Len(query_history')].response = last'.answer]_vars

\* C28: upload requests that carry the same file name do not interfere:
\* every one of them succeeds, has processed its own content, has added
\* one to total_documents, and no temporary file is left when none is in
\* flight.
C28_SameNameUploadsIndependent ==
    [][/\ (last'.op = "upload_document" /\ last'.kind # "await")
             => /\ last'.status = 200
                /\ doc_processor
                      => /\ last'.processed = last'.request.content
                         /\ system_stats'.total_documents
                              = system_stats.total_documents + 1
       /\ pending' = EmptyBag => tmp' = {}]_vars

\* The payload has all four fields and a positive amount.
ValidPayment(data) ==
    /\ data.json = "object"
    /\ \A i \in 1..Len(required_fields) : required_fields[i] \in data.fields
    /\ data.amount.type = "number"
    /\ data.amount.value > 0

\* The validation rejects the payload: a field is missing, or the amount
\* is a number that is not positive.
ValidationFails(data) ==
    /\ data.json = "object"
    /\ \/ \E i \in 1..Len(required_fields) : required_fields[i] \notin data.fields
       \/ data.amount.type = "number" /\ data.amount.value <= 0

Ran(calls, name) == \E i \in 1..Len(calls) : calls[i] = name

====
